---- MODULE Spec2Model ----
(***************************************************************************)
(* Credential issuance of scripts/create-e2e-admin-key.py.                 *)
(*                                                                         *)
(* One run of the script draws a secret, derives its fingerprint, draws    *)
(* three uuids and prints (a) an SQL transaction and (b) a summary block.  *)
(* The SQL transaction is then applied to the relational store by a        *)
(* database session, statement by statement; the same SQL text may be      *)
(* applied any number of times and by several sessions at once.  The       *)
(* verifier, the revocation and the expiry sweeper are not part of the     *)
(* script; they are modelled from the design document.                     *)
(***************************************************************************)
EXTENDS Integers, Sequences, FiniteSets, TLC

\* ------------------------------------------------------------------ bounds
MaxRuns == 2        \* runs of the script
NumSessions == 2    \* database sessions applying SQL concurrently
MaxClock == 365     \* the clock stops advancing here (days)

\* ------------------------------------------------------- program constants
\* INTERVAL '365 days'.  The script also computes expires_at in Python
\* (utcnow() + 365 days) but never prints it: the stored value is SQL's.
ValidityDays == 365
OrgSlug == "e2e-admin-org"
UserEmail == "e2e-admin@ai-aas.dev"
password_hash == "$2a$10$92IXUNpkjO0rOQ5byMi.Ye4oKoEa3Ro9llC/.og/at2.uheWG/igi"

Sessions == 1..NumSessions
TickSteps == {ValidityDays - 1, ValidityDays}

VARIABLES
    clock,      \* wall clock of the database server, in days
    scripts,    \* scripts[k]: the SQL text printed by run k (its parameters)
    stdout,     \* stdout[k]: what run k printed, one entry per print call
    orgs,       \* committed rows of table orgs
    users,      \* committed rows of table users
    api_keys,   \* committed rows of table api_keys
    tx,         \* tx[s]: the transaction session s has open
    lastIssue,  \* history: lastIssue[k] = NOW() of the last committed
                \* application of scripts[k], -1 when there is none
    verdict     \* outcome of the last verification

vars == <<clock, scripts, stdout, orgs, users, api_keys, tx, lastIssue, verdict>>

\* ------------------------------------------------- secret and fingerprint
\* Texts are strings.  The 256-bit draws of secrets.token_bytes and uuid4 are
\* fresh: run k draws values no other run draws.  The base64 and SHA-256
\* conversions are distinct text constructors (SHA-256 is taken to be
\* collision free on the secrets drawn).
rstrip(s) ==
    IF Len(s) > 0 /\ SubSeq(s, Len(s), Len(s)) = "="
    THEN SubSeq(s, 1, Len(s) - 1)
    ELSE s

urlsafe_b64encode(bytes) == "b64[" \o bytes \o "]="

\* secrets.token_bytes(32), as drawn by run k
token_bytes(k) == "rnd" \o ToString(k)

sha256(text) == "sha256(" \o text \o ")"

\* secret = base64.urlsafe_b64encode(secret_bytes).decode('utf-8').rstrip('=')
SecretOf(k) == rstrip(urlsafe_b64encode(token_bytes(k)))

\* Faulty variant: the clear-text secret is stored as the lookup key.
fingerprint_clear(secret) == secret

\* fingerprint = urlsafe_b64encode(sha256(secret.encode('utf-8'))).rstrip('=')
fingerprint(secret) == rstrip(urlsafe_b64encode(sha256(secret)))

\* The secrets of all runs, made or not: what a caller may present.
AllSecrets == {SecretOf(k) : k \in 1..MaxRuns}

\* uuid.uuid4(): the i-th uuid drawn by run k; every draw is fresh.
uuid4(k, i) == 3 * (k - 1) + i

\* Faulty variant: the fingerprint is taken of the raw bytes, not of the encoded text.
NewScript_rawbytes(k) ==
    [ secret      |-> SecretOf(k),
      fingerprint |-> fingerprint(token_bytes(k)),
      org_id      |-> uuid4(k, 1),
      user_id     |-> uuid4(k, 2),
      api_key_id  |-> uuid4(k, 3) ]

\* The parameters the f-string substitutes into the SQL text of run k.
NewScript(k) ==
    LET secret == SecretOf(k) IN
    [ secret      |-> secret,
      fingerprint |-> fingerprint(secret),
      org_id      |-> uuid4(k, 1),
      user_id     |-> uuid4(k, 2),
      api_key_id  |-> uuid4(k, 3) ]

\* Faulty variant: the summary block no longer repeats the secret.
Output_once(sc) ==
    << [line |-> 31,  secret |-> sc.secret, ids |-> {sc.org_id, sc.user_id, sc.api_key_id}],
       [line |-> 115, secret |-> "", ids |-> {}],
       [line |-> 116, secret |-> "", ids |-> {}],
       [line |-> 117, secret |-> "", ids |-> {}],
       [line |-> 118, secret |-> "", ids |-> {}],
       [line |-> 119, secret |-> "", ids |-> {sc.org_id}],
       [line |-> 120, secret |-> "", ids |-> {sc.user_id}],
       [line |-> 121, secret |-> "", ids |-> {sc.api_key_id}],
       [line |-> 122, secret |-> "", ids |-> {}] >>

\* The print calls of one run, in order: the SQL block (line 31, which
\* carries "-- API Key Secret: {secret}") and the summary block.
Output(sc) ==
    << [line |-> 31,  secret |-> sc.secret, ids |-> {sc.org_id, sc.user_id, sc.api_key_id}],
       [line |-> 115, secret |-> "", ids |-> {}],
       [line |-> 116, secret |-> "", ids |-> {}],
       [line |-> 117, secret |-> "", ids |-> {}],
       [line |-> 118, secret |-> sc.secret, ids |-> {}],
       [line |-> 119, secret |-> "", ids |-> {sc.org_id}],
       [line |-> 120, secret |-> "", ids |-> {sc.user_id}],
       [line |-> 121, secret |-> "", ids |-> {sc.api_key_id}],
       [line |-> 122, secret |-> "", ids |-> {}] >>

\* ------------------------------------------------------------ SQL statements
OrgRow(sc, now) ==
    [ org_id |-> sc.org_id, slug |-> OrgSlug,
      name |-> "E2E Test Admin Organization", status |-> "active",
      declarative_mode |-> "disabled", mfa_required_roles |-> "[]",
      metadata |-> "{}", created_at |-> now, updated_at |-> now ]

\* Faulty variant: the conflict branch also takes the new row's identity.
UpsertOrg_identity(t, sc, now) ==
    IF \E i \in DOMAIN t : t[i].slug = OrgSlug
    THEN [i \in DOMAIN t |->
            IF t[i].slug = OrgSlug
            THEN [t[i] EXCEPT !.status = "active", !.org_id = sc.org_id]
            ELSE t[i]]
    ELSE Append(t, OrgRow(sc, now))

\* INSERT INTO orgs ... ON CONFLICT (slug) DO UPDATE SET status = 'active'
UpsertOrg(t, sc, now) ==
    IF \E i \in DOMAIN t : t[i].slug = OrgSlug
    THEN [i \in DOMAIN t |->
            IF t[i].slug = OrgSlug
            THEN [t[i] EXCEPT !.status = "active"]
            ELSE t[i]]
    ELSE Append(t, OrgRow(sc, now))

UserRow(sc, now) ==
    [ user_id |-> sc.user_id, org_id |-> sc.org_id, email |-> UserEmail,
      display_name |-> "E2E Admin User", password_hash |-> password_hash,
      status |-> "active", mfa_enrolled |-> FALSE, mfa_methods |-> "[]",
      recovery_tokens |-> "[]", metadata |-> "{}",
      created_at |-> now, updated_at |-> now ]

\* INSERT INTO users ... ON CONFLICT (org_id, email) DO UPDATE
\* SET status = 'active', password_hash = '{password_hash}'
UpsertUser(t, sc, now) ==
    IF \E i \in DOMAIN t : t[i].org_id = sc.org_id /\ t[i].email = UserEmail
    THEN [i \in DOMAIN t |->
            IF t[i].org_id = sc.org_id /\ t[i].email = UserEmail
            THEN [t[i] EXCEPT !.status = "active", !.password_hash = password_hash]
            ELSE t[i]]
    ELSE Append(t, UserRow(sc, now))

ApiKeyRow(sc, now) ==
    [ api_key_id |-> sc.api_key_id, org_id |-> sc.org_id,
      principal_type |-> "user", principal_id |-> sc.user_id,
      fingerprint |-> sc.fingerprint, status |-> "active",
      scopes |-> <<"*">>, issued_at |-> now,
      expires_at |-> now + ValidityDays,
      annotations |-> [purpose |-> "e2e-tests", created_by |-> "script"],
      created_at |-> now, updated_at |-> now ]

KeyConflict(r, sc) == r.org_id = sc.org_id /\ r.fingerprint = sc.fingerprint

\* Faulty variant: ON CONFLICT DO NOTHING.
UpsertApiKey_norefresh(t, sc, now) ==
    IF \E i \in DOMAIN t : KeyConflict(t[i], sc)
    THEN t
    ELSE Append(t, ApiKeyRow(sc, now))

\* Faulty variant: a plain INSERT with no unique key to conflict on.
UpsertApiKey_append(t, sc, now) == Append(t, ApiKeyRow(sc, now))

\* Faulty variant: DO UPDATE SET expires_at only; the status is left as it reads.
UpsertApiKey_keepstatus(t, sc, now) ==
    IF \E i \in DOMAIN t : KeyConflict(t[i], sc)
    THEN [i \in DOMAIN t |->
            IF KeyConflict(t[i], sc)
            THEN [t[i] EXCEPT !.expires_at = now + ValidityDays]
            ELSE t[i]]
    ELSE Append(t, ApiKeyRow(sc, now))

\* Faulty variant: DO UPDATE also restamps issued_at.
UpsertApiKey_reissued(t, sc, now) ==
    IF \E i \in DOMAIN t : KeyConflict(t[i], sc)
    THEN [i \in DOMAIN t |->
            IF KeyConflict(t[i], sc)
            THEN [t[i] EXCEPT !.status = "active", !.issued_at = now,
                              !.expires_at = now + ValidityDays]
            ELSE t[i]]
    ELSE Append(t, ApiKeyRow(sc, now))

\* INSERT INTO api_keys ... ON CONFLICT (org_id, fingerprint) DO UPDATE
\* SET status = 'active', expires_at = NOW() + INTERVAL '365 days'
UpsertApiKey(t, sc, now) ==
    IF \E i \in DOMAIN t : KeyConflict(t[i], sc)
    THEN [i \in DOMAIN t |->
            IF KeyConflict(t[i], sc)
            THEN [t[i] EXCEPT !.status = "active",
                              !.expires_at = now + ValidityDays]
            ELSE t[i]]
    ELSE Append(t, ApiKeyRow(sc, now))

\* Foreign key users.org_id / api_keys.org_id -> orgs.org_id
OrgExists(t, org_id) == \E i \in DOMAIN t : t[i].org_id = org_id

\* --------------------------------------------------------- store machinery
\* What a statement changed: rows appended and rows rewritten in place.
Diff(before, after) ==
    [ ins |-> SubSeq(after, Len(before) + 1, Len(after)),
      upd |-> {<<i, after[i]>> : i \in {j \in DOMAIN before : after[j] # before[j]}} ]

NoDiff == [ins |-> <<>>, upd |-> {}]

\* A table with a transaction's changes laid over it.
Patch(t, d) ==
    [i \in DOMAIN t |->
        IF \E u \in d.upd : u[1] = i
        THEN (CHOOSE u \in d.upd : u[1] = i)[2]
        ELSE t[i]] \o d.ins

\* ------------------------------------------------------------------- state
IdleTx ==
    [ st |-> "idle", run |-> 0, pc |-> 0, now |-> 0,
      dorgs |-> NoDiff, dusers |-> NoDiff, dkeys |-> NoDiff ]

NoVerdict == [result |-> "none", scopes |-> <<>>]

Init ==
    /\ clock = 0
    /\ scripts = <<>>
    /\ stdout = <<>>
    /\ orgs = <<>>
    /\ users = <<>>
    /\ api_keys = <<>>
    /\ tx = [s \in Sessions |-> IdleTx]
    /\ lastIssue = [k \in 1..MaxRuns |-> -1]
    /\ verdict = NoVerdict

\* One run of create-e2e-admin-key.py.
RunScript ==
    /\ Len(scripts) < MaxRuns
    /\ LET sc == NewScript(Len(scripts) + 1) IN
        /\ scripts' = Append(scripts, sc)
        /\ stdout' = Append(stdout, Output(sc))
    /\ UNCHANGED <<clock, orgs, users, api_keys, tx, lastIssue, verdict>>

Tick(d) ==
    /\ clock + d <= MaxClock
    /\ clock' = clock + d
    /\ UNCHANGED <<scripts, stdout, orgs, users, api_keys, tx, lastIssue, verdict>>

\* Faulty variant: the upsert is a read followed by a write; it waits for nobody.
Blocked_never(s) == FALSE

\* INSERT ... ON CONFLICT is one atomic insert-or-update on the unique key:
\* the statement session s is about to run waits while another open
\* transaction has written the same unique key and has not ended.
Blocked(s) ==
    \E o \in Sessions \ {s} :
        /\ tx[o].st # "idle"
        /\ \/ tx[s].pc = 1 /\ tx[o].pc > 1
           \/ /\ tx[s].pc = 2 /\ tx[o].pc > 2
              /\ scripts[tx[o].run].org_id = scripts[tx[s].run].org_id
           \/ /\ tx[s].pc = 3 /\ tx[o].pc > 3
              /\ scripts[tx[o].run].org_id = scripts[tx[s].run].org_id
              /\ scripts[tx[o].run].fingerprint = scripts[tx[s].run].fingerprint

\* BEGIN: session s starts applying the SQL text of run k; NOW() is fixed.
Begin(s, k) ==
    /\ tx[s].st = "idle"
    /\ k \in DOMAIN scripts
    /\ tx' = [tx EXCEPT ![s] = [IdleTx EXCEPT !.st = "open", !.run = k,
                                             !.pc = 1, !.now = clock]]
    /\ UNCHANGED <<clock, scripts, stdout, orgs, users, api_keys, lastIssue, verdict>>

\* INSERT INTO orgs ...
StmtOrg(s) ==
    /\ tx[s].st # "idle" /\ tx[s].pc = 1
    /\ ~Blocked(s)
    /\ LET sc == scripts[tx[s].run] IN
        tx' = [tx EXCEPT ![s].pc = 2,
                         ![s].dorgs = Diff(orgs, UpsertOrg(orgs, sc, tx[s].now))]
    /\ UNCHANGED <<clock, scripts, stdout, orgs, users, api_keys, lastIssue, verdict>>

\* INSERT INTO users ...; a foreign-key error aborts the transaction.
StmtUser(s) ==
    /\ tx[s].st # "idle" /\ tx[s].pc = 2
    /\ ~Blocked(s)
    /\ LET sc == scripts[tx[s].run] IN
        IF tx[s].st = "open" /\ OrgExists(Patch(orgs, tx[s].dorgs), sc.org_id)
        THEN tx' = [tx EXCEPT ![s].pc = 3,
                              ![s].dusers = Diff(users, UpsertUser(users, sc, tx[s].now))]
        ELSE tx' = [tx EXCEPT ![s].pc = 3, ![s].st = "failed"]
    /\ UNCHANGED <<clock, scripts, stdout, orgs, users, api_keys, lastIssue, verdict>>

\* INSERT INTO api_keys ...; skipped with an error in an aborted transaction.
StmtKey(s) ==
    /\ tx[s].st # "idle" /\ tx[s].pc = 3
    /\ ~Blocked(s)
    /\ LET sc == scripts[tx[s].run] IN
        IF tx[s].st = "open" /\ OrgExists(Patch(orgs, tx[s].dorgs), sc.org_id)
        THEN tx' = [tx EXCEPT ![s].pc = 4,
                              ![s].dkeys = Diff(api_keys, UpsertApiKey(api_keys, sc, tx[s].now))]
        ELSE tx' = [tx EXCEPT ![s].pc = 4, ![s].st = "failed"]
    /\ UNCHANGED <<clock, scripts, stdout, orgs, users, api_keys, lastIssue, verdict>>

\* COMMIT: publishes the changes, or rolls back an aborted transaction.
Commit(s) ==
    /\ tx[s].st # "idle" /\ tx[s].pc = 4
    /\ IF tx[s].st = "open"
       THEN /\ orgs' = Patch(orgs, tx[s].dorgs)
            /\ users' = Patch(users, tx[s].dusers)
            /\ api_keys' = Patch(api_keys, tx[s].dkeys)
            /\ lastIssue' = [lastIssue EXCEPT ![tx[s].run] = tx[s].now]
       ELSE UNCHANGED <<orgs, users, api_keys, lastIssue>>
    /\ tx' = [tx EXCEPT ![s] = IdleTx]
    /\ UNCHANGED <<clock, scripts, stdout, verdict>>

\* ---------------------------------------- collaborators of the design document
\* A row some open transaction has rewritten or is waiting to publish.
RowLocked(r) ==
    \E s \in Sessions :
        /\ tx[s].st = "open" /\ tx[s].pc = 4
        /\ KeyConflict(r, scripts[tx[s].run])

\* Revocation: the status of an active credential becomes revoked.
Revoke(i) ==
    /\ i \in DOMAIN api_keys
    /\ api_keys[i].status = "active"
    /\ ~RowLocked(api_keys[i])
    /\ api_keys' = [api_keys EXCEPT ![i].status = "revoked"]
    /\ UNCHANGED <<clock, scripts, stdout, orgs, users, tx, lastIssue, verdict>>

\* The sweeper: active rows past their expiry become expired.
Sweep ==
    /\ \E i \in DOMAIN api_keys :
          /\ api_keys[i].status = "active"
          /\ api_keys[i].expires_at <= clock
          /\ ~RowLocked(api_keys[i])
    /\ api_keys' = [i \in DOMAIN api_keys |->
                      IF /\ api_keys[i].status = "active"
                         /\ api_keys[i].expires_at <= clock
                         /\ ~RowLocked(api_keys[i])
                      THEN [api_keys[i] EXCEPT !.status = "expired"]
                      ELSE api_keys[i]]
    /\ UNCHANGED <<clock, scripts, stdout, orgs, users, tx, lastIssue, verdict>>

\* findActiveCredential: the rows of org with this fingerprint that read active.
FindCredential(t, org, fp) ==
    {i \in DOMAIN t : t[i].org_id = org /\ t[i].fingerprint = fp /\ t[i].status = "active"}

\* The verifier's decision for a presented secret.
VerifyResult(t, secret, org, now) ==
    LET found == FindCredential(t, org, fingerprint(secret)) IN
    IF found = {}
    THEN [result |-> "CredentialNotFound", scopes |-> <<>>]
    ELSE LET r == t[CHOOSE i \in found : TRUE] IN
         IF r.expires_at <= now
         THEN [result |-> "CredentialExpired", scopes |-> <<>>]
         ELSE [result |-> "Authorized", scopes |-> r.scopes]

Verify(secret, org) ==
    /\ verdict' = VerifyResult(api_keys, secret, org, clock)
    /\ UNCHANGED <<clock, scripts, stdout, orgs, users, api_keys, tx, lastIssue>>

OrgIds == {scripts[k].org_id : k \in DOMAIN scripts}

Next ==
    \/ RunScript
    \/ \E d \in TickSteps : Tick(d)
    \/ \E s \in Sessions, k \in 1..MaxRuns : Begin(s, k)
    \/ \E s \in Sessions : StmtOrg(s)
    \/ \E s \in Sessions : StmtUser(s)
    \/ \E s \in Sessions : StmtKey(s)
    \/ \E s \in Sessions : Commit(s)
    \/ \E i \in 1..Len(api_keys) : Revoke(i)
    \/ Sweep
    \/ \E secret \in AllSecrets, org \in OrgIds : Verify(secret, org)

Spec == Init /\ [][Next]_vars
\* ------------------------------------------------------------------ claims
KeyRows(t, sc) == {i \in DOMAIN t : KeyConflict(t[i], sc)}

Terminal(r) == r.status \in {"revoked", "expired"}

\* Session s commits a transaction that did not abort, in this step.
Commits(s) == tx[s].st = "open" /\ tx[s].pc = 4 /\ tx'[s].st = "idle"

UniqueKeys(t) ==
    \A i, j \in DOMAIN t :
        (t[i].org_id = t[j].org_id /\ t[i].fingerprint = t[j].fingerprint) => i = j

\* C1: the store never holds two api_keys rows with the same
\* (org_id, fingerprint); when an issuance for an org and fingerprint commits,
\* exactly one row has that key and its expires_at is the one this issuance
\* computed, NOW() + 365 days, also when it is the second for that key.
C1_UpsertIdempotent ==
    [][ /\ UniqueKeys(api_keys')
        /\ \A s \in Sessions :
              Commits(s) =>
                 LET sc == scripts[tx[s].run] IN
                 /\ Cardinality(KeyRows(api_keys', sc)) = 1
                 /\ \A i \in KeyRows(api_keys', sc) :
                       api_keys'[i].expires_at = tx[s].now + ValidityDays ]_vars

\* A row a second issuance has refreshed: its expiry is that of the last
\* committed issuance, which is not the one that created it.
C1_Witness ==
    \E k \in DOMAIN scripts : \E i \in KeyRows(api_keys, scripts[k]) :
        /\ lastIssue[k] # api_keys[i].issued_at
        /\ api_keys[i].expires_at = lastIssue[k] + ValidityDays

\* The verification times that decide a row: now, and around its expiry.
VerifyTimes(r) == {clock, r.expires_at - 1, r.expires_at, r.expires_at + 1}

C3_EndToEnd ==
    [][ \A s \in Sessions :
          Commits(s) =>
             LET sc == scripts[tx[s].run] IN
             \A now \in {n \in {tx[s].now, clock} : n < tx[s].now + ValidityDays} :
                /\ VerifyResult(api_keys', sc.secret, sc.org_id, now)
                      = [result |-> "Authorized", scopes |-> <<"*">>]
                /\ \A other \in AllSecrets \ {sc.secret} :
                      VerifyResult(api_keys', other, sc.org_id, now).result
                         = "CredentialNotFound" ]_vars

\* A verification of an issued secret has been Authorized with scopes ["*"].
C3_Witness ==
    /\ verdict = [result |-> "Authorized", scopes |-> <<"*">>]
    /\ \E k \in DOMAIN scripts : lastIssue[k] >= 0

\* The print calls of run k that carry the clear-text secret.
Disclosures(k) == {i \in DOMAIN stdout[k] : stdout[k][i].secret = scripts[k].secret}

OrgTexts(r) == {r.slug, r.name, r.status, r.declarative_mode, r.mfa_required_roles, r.metadata}

UserTexts(r) ==
    {r.email, r.display_name, r.password_hash, r.status, r.mfa_methods,
     r.recovery_tokens, r.metadata}

KeyTexts(r) ==
    {r.principal_type, r.fingerprint, r.status, r.annotations.purpose,
     r.annotations.created_by} \cup {r.scopes[i] : i \in DOMAIN r.scopes}

EraseFingerprint(t) == [i \in DOMAIN t |-> [t[i] EXCEPT !.fingerprint = ""]]

\* C5: no column of any orgs, users or api_keys row, committed or pending,
\* holds a clear-text secret, and an issuance with another secret writes the
\* same rows except for the fingerprint column.
C5_SecretNotStored ==
    /\ \A i \in DOMAIN orgs : OrgTexts(orgs[i]) \cap AllSecrets = {}
    /\ \A i \in DOMAIN users : UserTexts(users[i]) \cap AllSecrets = {}
    /\ \A i \in DOMAIN api_keys : KeyTexts(api_keys[i]) \cap AllSecrets = {}
    /\ \A k \in DOMAIN scripts : \A k2 \in 1..MaxRuns :
          LET sc == scripts[k]
              other == [sc EXCEPT !.secret = NewScript(k2).secret,
                                  !.fingerprint = NewScript(k2).fingerprint]
              keys == UpsertApiKey(<<>>, sc, clock)
          IN
          /\ KeyTexts(keys[1]) \cap AllSecrets = {}
          /\ UpsertOrg(<<>>, sc, clock) = UpsertOrg(<<>>, other, clock)
          /\ UpsertUser(<<>>, sc, clock) = UpsertUser(<<>>, other, clock)
          /\ EraseFingerprint(keys) = EraseFingerprint(UpsertApiKey(<<>>, other, clock))
          /\ (k2 # k) => keys # UpsertApiKey(<<>>, other, clock)

\* A credential is stored, and the column that derives from its secret is
\* the fingerprint, not the secret.
C5_Witness ==
    \E k \in DOMAIN scripts : \E i \in DOMAIN api_keys :
        /\ api_keys[i].fingerprint = fingerprint(scripts[k].secret)
        /\ api_keys[i].fingerprint # scripts[k].secret

\* No table holds two rows with the same unique key, and every key whose
\* issuance has committed has exactly one api_keys row, with the expires_at
\* written by the transaction that committed last.
OneRowLastWriter ==
    /\ \A i, j \in DOMAIN orgs : orgs[i].slug = orgs[j].slug => i = j
    /\ \A i, j \in DOMAIN users :
          (users[i].org_id = users[j].org_id /\ users[i].email = users[j].email) => i = j
    /\ \A k \in DOMAIN scripts :
          lastIssue[k] >= 0 =>
             /\ Cardinality(KeyRows(api_keys, scripts[k])) = 1
             /\ \A i \in KeyRows(api_keys, scripts[k]) :
                   api_keys[i].expires_at = lastIssue[k] + ValidityDays

\* C6: under every interleaving of issuance transactions, no table holds two
\* rows with the same unique key; once an issuance of a key has committed
\* there is exactly one api_keys row for it, whose expires_at is the one
\* written by the transaction that committed last; and each commit leaves
\* that row with the status it wrote, active.
C6_LastWriterWins ==
    /\ []OneRowLastWriter
    /\ [][ \A s \in Sessions :
             Commits(s) =>
                \A i \in KeyRows(api_keys', scripts[tx[s].run]) :
                    api_keys'[i].status = "active" ]_vars

\* Two transactions for the same key overlapped: one began before the last
\* committed one began, and is still waiting for its first statement.
C6_Witness ==
    \E s \in Sessions :
        /\ tx[s].st = "open" /\ tx[s].pc = 1
        /\ lastIssue[tx[s].run] > tx[s].now

\* C7: no step changes any column of an existing orgs row other than status,
\* removes the row, or leaves two rows with the same slug.
C7_OrgIdentityKept ==
    [][ /\ \A i \in DOMAIN orgs :
              /\ i \in DOMAIN orgs'
              /\ orgs'[i] = [orgs[i] EXCEPT !.status = orgs'[i].status]
        /\ \A i, j \in DOMAIN orgs' : orgs'[i].slug = orgs'[j].slug => i = j ]_vars

\* An org upsert that found the slug present has committed: an issuance
\* later than the one that created the org row.
C7_Witness ==
    \E i \in DOMAIN orgs : \E k \in DOMAIN scripts :
        /\ orgs[i].org_id = scripts[k].org_id
        /\ orgs[i].created_at < lastIssue[k]

\* C8 as claimed: a row that reads revoked or expired never reads active again.
C8_TerminalForever ==
    [][ \A i \in DOMAIN api_keys :
          Terminal(api_keys[i]) =>
             (i \in DOMAIN api_keys' /\ api_keys'[i].status # "active") ]_vars

\* C8 as amended: a row that reads revoked or expired reads active again only
\* by a committed re-issuance for its org and fingerprint, and every such
\* re-issuance makes it active with expires_at = NOW() + 365 days.
C8_ReactivatedOnlyByReissue ==
    [][ \A i \in DOMAIN api_keys :
          /\ i \in DOMAIN api_keys'
          /\ (Terminal(api_keys[i]) /\ api_keys'[i].status = "active") =>
                \E s \in Sessions :
                    Commits(s) /\ KeyConflict(api_keys[i], scripts[tx[s].run])
          /\ \A s \in Sessions :
                (Commits(s) /\ KeyConflict(api_keys[i], scripts[tx[s].run])) =>
                    /\ api_keys'[i].status = "active"
                    /\ api_keys'[i].expires_at = tx[s].now + ValidityDays ]_vars

\* The upsert has run on a revoked or expired row and is about to commit.
C8_Witness ==
    \E i \in DOMAIN api_keys : \E s \in Sessions :
        /\ Terminal(api_keys[i])
        /\ tx[s].st = "open" /\ tx[s].pc = 4
        /\ \E u \in tx[s].dkeys.upd : u[1] = i /\ u[2].status = "active"

\* C9: a row enters api_keys with status active and
\* expires_at = issued_at + 365 days, and no step changes any column of an
\* existing row other than status and expires_at.
C9_ReissueFrame ==
    [][ /\ \A i \in DOMAIN api_keys' \ DOMAIN api_keys :
              /\ api_keys'[i].status = "active"
              /\ api_keys'[i].expires_at = api_keys'[i].issued_at + ValidityDays
        /\ \A i \in DOMAIN api_keys :
              /\ i \in DOMAIN api_keys'
              /\ api_keys'[i] = [api_keys[i] EXCEPT !.status = api_keys'[i].status,
                                                    !.expires_at = api_keys'[i].expires_at] ]_vars

\* A re-issued row: the expiry moved forward, the issue time did not.
C9_Witness ==
    \E i \in DOMAIN api_keys :
        /\ api_keys[i].status = "active"
        /\ api_keys[i].expires_at > api_keys[i].issued_at + ValidityDays
        /\ api_keys[i].updated_at = api_keys[i].issued_at

\* C10 as claimed: every users row belongs to an existing org, every api_keys
\* row to an existing org and user, and no application of a run's SQL aborts.
C10_EveryRunCommits ==
    /\ \A i \in DOMAIN users : OrgExists(orgs, users[i].org_id)
    /\ \A i \in DOMAIN api_keys :
          /\ OrgExists(orgs, api_keys[i].org_id)
          /\ \E j \in DOMAIN users : users[j].user_id = api_keys[i].principal_id
    /\ \A s \in Sessions : tx[s].st # "failed"
====
